---------------------------- MODULE Spec2Model ----------------------------
(***************************************************************************)
(* Model of brewcop's C programs: scale.c (scale_read on a stdio stream    *)
(* attached to an Avery-Berkel 6702 scale) and pot.c (pot_checker polling  *)
(* loop and pot_update transition detection); scale_init and scale_fini    *)
(* called by several processes on one device; and test/query.c.            *)
(*                                                                         *)
(* Bytes are one-character strings; the control bytes are written "LF",    *)
(* "CR" and "ETX".  Weights are integers in thousandths of a pound; the    *)
(* arithmetic on them is exact where the C code computes in float.         *)
(*                                                                         *)
(* The stream: each query written by scale_read is answered by one frame,  *)
(* appended to what stdio has not consumed yet (inbuf).  stdio writes the  *)
(* buffered query out when the stream turns from writing to reading, so a  *)
(* query counts as sent when fputs succeeds.  A scan that needs a byte     *)
(* beyond the bytes received meets end of file.                            *)
(***************************************************************************)
EXTENDS Integers, Sequences, FiniteSets, TLC

VARIABLES
    pc,         \* position of pot: "init", "read", "ret", "exit"
    inbuf,      \* bytes of the scale's stream not yet consumed by stdio
    rx,         \* the stream as the last scale_read pass found it
    nq,         \* queries written by the current scale_read call
    rc,         \* return value of the last scale_read
    errno,      \* errno
    status,     \* scale_read's local 'status'
    lbs,        \* pot_checker's 'lbs' (*wp), in thousandths of a pound
    pct,        \* pot->pct
    full_lbs,   \* pot->full_lbs, in thousandths of a pound
    empty_lbs,  \* pot->empty_lbs, in thousandths of a pound
    pct_err,    \* pot->pct_err
    ev,         \* message logged by the last pot_update: "on", "off", "none"
    evpct,      \* percentage printed by the last "on" message
    emitted_pct,\* pot percentage at the last logged message (history)
    last_ev,    \* the last "on" or "off" logged, "none" before any (history)
    lpc,        \* per session: position in scale_init / scale_fini
    fd,         \* per session: TRUE while its descriptor of the device is open
    holder,     \* the session whose descriptor holds the flock, 0 when free
    ret,        \* per session: what its last scale_init returned
    refused,    \* per session: flock has failed for it (history)
    freed_by,   \* what released the lock last: "fini", "close", "exit"
    qpc,        \* position of query: "start", "read", "main", "exit"
    stream,     \* bytes the scale has sent that query has not read yet
    orig,       \* all the bytes the scale sends in answer (history)
    buf,        \* main's buf, the bytes stored so far (len is its length)
    qlen,       \* return value of read_response
    qerrno,     \* errno of query
    printed,    \* standard output of query: the weights printed
    qmsg,       \* the message query wrote to standard error
    qexit       \* exit status of query

potvars == <<pc, inbuf, rx, nq, rc, errno, status, lbs, pct, full_lbs,
             empty_lbs, pct_err, ev, evpct, emitted_pct, last_ev>>

lockvars == <<lpc, fd, holder, ret, refused, freed_by>>

queryvars == <<stream, orig, buf, qlen, qerrno, printed, qmsg, qexit, qpc>>

vars == <<potvars, lockvars, queryvars>>

----------------------------------------------------------------------------
(* Characters *)

DigitChars == <<"0", "1", "2", "3", "4", "5", "6", "7", "8", "9">>

Digits == {DigitChars[i] : i \in 1..Len(DigitChars)}

DigitVal(c) == (CHOOSE i \in 1..Len(DigitChars) : DigitChars[i] = c) - 1

\* isspace() on the bytes the scale sends
IsSpace(c) == c \in {"LF", "CR", " "}

RECURSIVE SkipWs(_)
SkipWs(s) == IF s # <<>> /\ IsSpace(Head(s)) THEN SkipWs(Tail(s)) ELSE s

\* the longest prefix of s made of digits
RECURSIVE DigitRun(_)
DigitRun(s) ==
    IF s # <<>> /\ Head(s) \in Digits
    THEN <<Head(s)>> \o DigitRun(Tail(s))
    ELSE <<>>

RECURSIVE DecVal(_)
DecVal(ds) ==
    IF ds = <<>> THEN 0
    ELSE 10 * DecVal(SubSeq(ds, 1, Len(ds) - 1)) + DigitVal(ds[Len(ds)])

Drop(s, n) == SubSeq(s, n + 1, Len(s))

RECURSIVE Pow10(_)
Pow10(n) == IF n = 0 THEN 1 ELSE 10 * Pow10(n - 1)

\* C integer division truncates toward zero
TruncDiv(a, b) ==
    IF (a >= 0) = (b > 0)
    THEN (IF a >= 0 THEN a ELSE -a) \div (IF b > 0 THEN b ELSE -b)
    ELSE -((IF a >= 0 THEN a ELSE -a) \div (IF b > 0 THEN b ELSE -b))

----------------------------------------------------------------------------
(* fscanf: a format is a sequence of directives, each a record             *)
(*   [k |-> "ws"]            white space: skips any amount, also none      *)
(*   [k |-> "lit", c |-> x]  an ordinary character                         *)
(*   [k |-> "f"], [k |-> "d"]  the conversions %f and %d                   *)

Ws == [k |-> "ws", c |-> ""]

Lit(x) == [k |-> "lit", c |-> x]

ConvF == [k |-> "f", c |-> ""]

ConvD == [k |-> "d", c |-> ""]

\* fscanf's return value when a directive stops it after n assignments:
\* EOF (-1) on an input failure before the first conversion, else n
InputFailure(n) == IF n = 0 THEN -1 ELSE n

\* %f on stream s (white space already skipped): optional sign, digits,
\* optional point and digits; the input item is the longest prefix of such
\* a sequence and is consumed even when it holds no digit.
\* Result: ok, the value in thousandths, the rest of the stream.
ParseFloat(s) ==
    LET neg    == s # <<>> /\ Head(s) = "-"
        s2     == IF s # <<>> /\ Head(s) \in {"-", "+"} THEN Tail(s) ELSE s
        ip     == DigitRun(s2)
        s3     == Drop(s2, Len(ip))
        hasDot == s3 # <<>> /\ Head(s3) = "."
        s4     == IF hasDot THEN Tail(s3) ELSE s3
        fp     == IF hasDot THEN DigitRun(s4) ELSE <<>>
        s5     == Drop(s4, Len(fp))
        mag    == (DecVal(ip \o fp) * 1000) \div Pow10(Len(fp))
    IN  [ok   |-> Len(ip) + Len(fp) > 0,
         val  |-> IF neg THEN -mag ELSE mag,
         rest |-> s5]

\* %d on stream s (white space already skipped): optional sign, digits
ParseInt(s) ==
    LET neg == s # <<>> /\ Head(s) = "-"
        s2  == IF s # <<>> /\ Head(s) \in {"-", "+"} THEN Tail(s) ELSE s
        ds  == DigitRun(s2)
    IN  [ok   |-> Len(ds) > 0,
         val  |-> IF neg THEN -DecVal(ds) ELSE DecVal(ds),
         rest |-> Drop(s2, Len(ds))]

\* fscanf (fp, fmt, &w, &d) from directive i on, with n assignments made so
\* far; w and d are the current values of the float and int arguments.
\* Result: ret (fscanf's return value), rest (the stream left), w, d.
RECURSIVE ScanFrom(_, _, _, _, _, _)
ScanFrom(fmt, i, s, n, w, d) ==
    IF i > Len(fmt) THEN [ret |-> n, rest |-> s, w |-> w, d |-> d]
    ELSE
    LET dir == fmt[i]
        s1  == SkipWs(s)
        pf  == ParseFloat(s1)
        pd  == ParseInt(s1)
    IN  CASE dir.k = "ws" -> ScanFrom(fmt, i + 1, s1, n, w, d)
          [] dir.k = "lit" ->
                IF s = <<>>
                THEN [ret |-> InputFailure(n), rest |-> s, w |-> w, d |-> d]
                ELSE IF Head(s) = dir.c
                THEN ScanFrom(fmt, i + 1, Tail(s), n, w, d)
                ELSE [ret |-> n, rest |-> s, w |-> w, d |-> d]
          [] dir.k = "f" ->
                IF s1 = <<>>
                THEN [ret |-> InputFailure(n), rest |-> s1, w |-> w, d |-> d]
                ELSE IF pf.ok
                THEN ScanFrom(fmt, i + 1, pf.rest, n + 1, pf.val, d)
                ELSE [ret |-> n, rest |-> pf.rest, w |-> w, d |-> d]
          [] dir.k = "d" ->
                IF s1 = <<>>
                THEN [ret |-> InputFailure(n), rest |-> s1, w |-> w, d |-> d]
                ELSE IF pd.ok
                THEN ScanFrom(fmt, i + 1, pd.rest, n + 1, w, pd.val)
                ELSE [ret |-> n, rest |-> pd.rest, w |-> w, d |-> d]

fscanf(fmt, s, w, d) == ScanFrom(fmt, 1, s, 0, w, d)

\* the trailer "\r\nS%d\r\003" of the value and capacity formats
Trailer == <<Ws, Lit("S"), ConvD, Ws, Lit("ETX")>>

Six(x) == <<Lit(x), Lit(x), Lit(x), Lit(x), Lit(x), Lit(x)>>

\* "\n%fLB\r\nS%d\r\003"
FmtValue == <<Ws, ConvF, Lit("L"), Lit("B")>> \o Trailer

\* "\n^^^^^^\r\nS%d\r\003"
FmtOver == <<Ws>> \o Six("^") \o Trailer

\* "\n______\r\nS%d\r\003"
FmtUnder == <<Ws>> \o Six("_") \o Trailer

\* "\n------\r\nS%d\r\003"
FmtZero == <<Ws>> \o Six("-") \o Trailer

\* "\nS%d\r\003"
FmtStatus == Trailer

----------------------------------------------------------------------------
(* scale.c *)

\* what a pass of scale_read ends with: out is "done", "error" or "again",
\* e is errno, r the result of the fscanf that decided
Outcome(out, e, r) ==
    [out |-> out, errno |-> e, rest |-> r.rest, weight |-> r.w,
     status |-> r.d]

\* the next fscanf of scale_read, on what the fscanf with result r left
Then(fmt, r) == fscanf(fmt, r.rest, r.w, r.d)

\* status only: "goto again", else errno = EPROTO
AfterStatus(r, e) ==
    IF r.ret = 1 THEN Outcome("again", e, r) ELSE Outcome("error", "EPROTO", r)

\* zeroing error: errno = EDOM, else try the status only format
AfterZero(r, e) ==
    IF r.ret = 1 THEN Outcome("error", "EDOM", r)
    ELSE AfterStatus(Then(FmtStatus, r), e)

\* under capacity: errno = ERANGE, else try the zeroing error format
AfterUnder(r, e) ==
    IF r.ret = 1 THEN Outcome("error", "ERANGE", r)
    ELSE AfterZero(Then(FmtZero, r), e)

\* over capacity: errno = ERANGE, else try the under capacity format
AfterOver(r, e) ==
    IF r.ret = 1 THEN Outcome("error", "ERANGE", r)
    ELSE AfterUnder(Then(FmtUnder, r), e)

\* value and status: "goto done", else try the over capacity format
AfterValue(r, e) ==
    IF r.ret = 2 THEN Outcome("done", e, r)
    ELSE AfterOver(Then(FmtOver, r), e)

\* One pass of scale_read from the label 'again', after the query has been
\* written: the five fscanf calls in turn, each on what the one before left
\* of stream s.  e is errno on entry, st the local 'status'.
\* Result: out ("done", "error" or "again"), errno, the stream left, the
\* local 'weight' and the local 'status'.
ScaleReadPass(s, e, st) == AfterValue(fscanf(FmtValue, s, 0, st), e)

----------------------------------------------------------------------------
(* The scale: one response frame per query *)

ValueFrame(num, st) ==
    <<"LF">> \o num \o <<"L", "B", "CR", "LF", "S">> \o st \o <<"CR", "ETX">>

CapFrame(x, st) ==
    <<"LF", x, x, x, x, x, x, "CR", "LF", "S">> \o st \o <<"CR", "ETX">>

StatusFrame(st) == <<"LF", "S">> \o st \o <<"CR", "ETX">>

\* the frames the scale may answer a query with: well-formed ones of every
\* kind of the protocol, and malformed ones
Responses ==
    { ValueFrame(<<"0", "5", ".", "1", "2", "0">>, <<"0", "0">>),
      ValueFrame(<<"0", "0", ".", "0", "0", "0">>, <<"2", "0">>),
      ValueFrame(<<"0", "1", ".", "0", "0", "0">>, <<"0", "0">>),
      ValueFrame(<<"0", "2", ".", "0", "0", "0">>, <<"0", "0">>),
      ValueFrame(<<"0", "2", ".", "0", "0", "0">>, <<"1", "0">>),
      ValueFrame(<<"-", "1", ".", "0", "0", "0">>, <<"0", "0">>),
      ValueFrame(<<"2", ".", "5">>, <<"0", "0">>),
      <<"LF", "0", "2", ".", "0", "0", "0", "L", "B", "CR", "LF",
        "S", "0", "0", "ETX">>,
      CapFrame("^", <<"0", "2">>),
      CapFrame("_", <<"0", "1">>),
      CapFrame("-", <<"0", "0">>),
      StatusFrame(<<"1", "0">>),
      StatusFrame(<<"1", "1">>),
      StatusFrame(<<"0", "0">>),
      StatusFrame(<<"0", "2">>),
      <<"LF", "X", "CR", "ETX">> }

----------------------------------------------------------------------------
(* pot.c *)

\* pot.conf: empty_lbs, full_lbs (thousandths of a pound) and pct_err;
\* pot_init takes the numbers as strtof gives them
Configs ==
    { [empty_lbs |-> 1000, full_lbs |-> 3000, pct_err |-> 5],
      [empty_lbs |-> 0, full_lbs |-> 10000, pct_err |-> 5],
      [empty_lbs |-> 0, full_lbs |-> 3000, pct_err |-> 5],
      [empty_lbs |-> 2000, full_lbs |-> 2000, pct_err |-> 5],
      [empty_lbs |-> 3000, full_lbs |-> 1000, pct_err |-> 5] }

\* the query counter stops counting here
MaxQueries == 3

\* pot_checker: pct = 100 * (lbs - empty_lbs) / (full_lbs - empty_lbs),
\* converted to int
Pct(w, e, f) == TruncDiv(100 * (w - e), f - e)

\* what the conversion to int may give for an infinity or a NaN, which it
\* leaves undefined: INT_MIN, 0 or INT_MAX
ConvUndefined == {-2147483647 - 1, 0, 2147483647}

\* the values pot_checker may pass to pot_update for weight w: with
\* full_lbs = empty_lbs the float division is by zero
PctValues(w, e, f) == IF f = e THEN ConvUndefined ELSE {Pct(w, e, f)}

\* a pot_update that stores the percentage only when it logs a message
StoredOnEvent(p, old, e) == IF e # "none" THEN p ELSE old

\* pot_update: pot->pct = pct, whatever message e was logged
Stored(p, old, e) == p

\* a pot_update that also logs "off" on a reading of exactly 0
OffCondAtZero(p, old) == p <= 0 /\ old >= 0

\* pot_update's first condition, 'old' being pot->pct
OffCond(p, old) == p < 0 /\ old >= 0

\* pot_update's second condition
OnCond(p, old) == p >= 0 /\ old <= 0

\* the message pot_update (pot, p) logs
Event(p, old) ==
    IF OffCond(p, old) THEN "off"
    ELSE IF OnCond(p, old) THEN "on"
    ELSE "none"

\* the sessions on the scale device (processes that call scale_init)
NumSessions == 3

Sessions == 1..NumSessions

\* no process has opened the device
LockInit ==
    /\ lpc = [s \in Sessions |-> "idle"]
    /\ fd = [s \in Sessions |-> FALSE]
    /\ holder = 0
    /\ ret = [s \in Sessions |-> "none"]
    /\ refused = [s \in Sessions |-> FALSE]
    /\ freed_by = "none"

\* query at the start of main
QueryInit ==
    /\ qpc = "start"
    /\ stream = <<>>
    /\ orig = <<>>
    /\ buf = <<>>
    /\ qlen = 0
    /\ qerrno = "0"
    /\ printed = <<>>
    /\ qmsg = ""
    /\ qexit = 0

\* main before pot_init; the pot_t will come zeroed from xzmalloc
Init ==
    /\ LockInit
    /\ QueryInit
    /\ pc = "init"
    /\ inbuf = <<>>
    /\ rx = <<>>
    /\ nq = 0
    /\ rc = 0
    /\ errno = "0"
    /\ status = 0
    /\ lbs = 0
    /\ pct = 0
    /\ full_lbs = 0
    /\ empty_lbs = 0
    /\ pct_err = 0
    /\ ev = "none"
    /\ evpct = 0
    /\ emitted_pct = 0
    /\ last_ev = "none"

\* pot_init: the configuration is read and scale_init succeeds
PotInit ==
    /\ pc = "init"
    /\ \E c \in Configs :
          /\ full_lbs' = c.full_lbs
          /\ empty_lbs' = c.empty_lbs
          /\ pct_err' = c.pct_err
    /\ pc' = "read"
    /\ UNCHANGED <<lockvars, queryvars>>
    /\ UNCHANGED <<inbuf, rx, nq, rc, errno, status, lbs, pct, ev, evpct,
                   emitted_pct, last_ev>>

\* pot_init: pot.conf cannot be loaded or lacks a key (msg_exit), or
\* scale_init fails (err_exit)
PotInitFail ==
    /\ pc = "init"
    /\ pc' = "exit"
    /\ UNCHANGED <<lockvars, queryvars>>
    /\ UNCHANGED <<inbuf, rx, nq, rc, errno, status, lbs, pct, full_lbs,
                   empty_lbs, pct_err, ev, evpct, emitted_pct, last_ev>>

\* scale_read: fputs fails
ScaleReadWriteError ==
    /\ pc = "read"
    /\ pc' = "ret"
    /\ rc' = -1
    /\ errno' = "EIO"
    /\ UNCHANGED <<lockvars, queryvars>>
    /\ UNCHANGED <<inbuf, rx, nq, status, lbs, pct, full_lbs, empty_lbs,
                   pct_err, ev, evpct, emitted_pct, last_ev>>

\* scale_read: one pass from 'again': the query is written, the scale
\* answers it, and the response is scanned
ScaleReadQuery ==
    /\ pc = "read"
    /\ \E resp \in Responses :
          LET r == ScaleReadPass(inbuf \o resp, errno, status)
          IN  /\ rx' = inbuf \o resp
              /\ nq' = IF nq < MaxQueries THEN nq + 1 ELSE nq
              /\ inbuf' = r.rest
              /\ status' = r.status
              /\ errno' = r.errno
              /\ pc' = IF r.out = "again" THEN "read" ELSE "ret"
              /\ rc' = CASE r.out = "done" -> 0
                         [] r.out = "error" -> -1
                         [] OTHER -> rc
              /\ lbs' = IF r.out = "done" THEN r.weight ELSE lbs
    /\ UNCHANGED <<lockvars, queryvars>>
    /\ UNCHANGED <<pct, full_lbs, empty_lbs, pct_err, ev, evpct, emitted_pct,
                   last_ev>>

\* pot_checker after a successful scale_read: pot_update, then sleep
PotCheckerUpdate ==
    /\ pc = "ret"
    /\ rc = 0
    /\ \E p \in PctValues(lbs, empty_lbs, full_lbs) :
           /\ ev' = Event(p, pct)
           /\ evpct' = IF Event(p, pct) = "on" THEN p ELSE evpct
           /\ emitted_pct' = IF Event(p, pct) # "none" THEN p ELSE emitted_pct
           /\ last_ev' = IF Event(p, pct) # "none" THEN Event(p, pct)
                          ELSE last_ev
           /\ pct' = Stored(p, pct, Event(p, pct))
    /\ pc' = "read"
    /\ nq' = 0
    /\ UNCHANGED <<lockvars, queryvars>>
    /\ UNCHANGED <<inbuf, rx, rc, errno, status, lbs, full_lbs, empty_lbs,
                   pct_err>>

\* pot_checker after a failed scale_read: err(), return; main then calls
\* pot_fini and returns
PotCheckerFail ==
    /\ pc = "ret"
    /\ rc < 0
    /\ pc' = "exit"
    /\ UNCHANGED <<lockvars, queryvars>>
    /\ UNCHANGED <<inbuf, rx, nq, rc, errno, status, lbs, pct, full_lbs,
                   empty_lbs, pct_err, ev, evpct, emitted_pct, last_ev>>

Next ==
    \/ PotInit
    \/ PotInitFail
    \/ ScaleReadWriteError
    \/ ScaleReadQuery
    \/ PotCheckerUpdate
    \/ PotCheckerFail

Spec == Init /\ [][Next]_vars

\* the process runs as long as it has a step to take
FairSpec == Spec /\ WF_vars(Next)

----------------------------------------------------------------------------
(* scale.c: scale_init and scale_fini, called by several processes on the  *)
(* same device.  Each system call of scale_init is one step, so that the   *)
(* calls of different processes interleave.  An flock lock belongs to the  *)
(* open file description: it is released when the descriptor is closed.    *)

\* a lock that any number of descriptors may hold at once
FlockShared(h) == TRUE

\* flock (fd, LOCK_EX | LOCK_NB) succeeds when no other descriptor holds
\* the lock, and fails at once otherwise
FlockOk(h) == h = 0

\* close of session s's descriptor releases the lock it holds
Released(h, s) == IF h = s THEN 0 ELSE h

\* scale_init: open succeeds
ScaleInitOpen(s) ==
    /\ lpc[s] = "idle"
    /\ lpc' = [lpc EXCEPT ![s] = "opened"]
    /\ fd' = [fd EXCEPT ![s] = TRUE]
    /\ ret' = [ret EXCEPT ![s] = "none"]
    /\ UNCHANGED <<holder, refused, freed_by>>
    /\ UNCHANGED <<potvars, queryvars>>

\* scale_init: open fails; at 'error' fd is negative, NULL is returned
ScaleInitOpenFail(s) ==
    /\ lpc[s] = "idle"
    /\ lpc' = [lpc EXCEPT ![s] = "failed"]
    /\ ret' = [ret EXCEPT ![s] = "NULL"]
    /\ UNCHANGED <<fd, holder, refused, freed_by>>
    /\ UNCHANGED <<potvars, queryvars>>

\* scale_init: flock (fd, LOCK_EX | LOCK_NB)
ScaleInitFlock(s) ==
    /\ lpc[s] = "opened"
    /\ IF FlockOk(holder)
       THEN /\ holder' = s
            /\ lpc' = [lpc EXCEPT ![s] = "locked"]
            /\ UNCHANGED refused
       ELSE /\ lpc' = [lpc EXCEPT ![s] = "error"]
            /\ refused' = [refused EXCEPT ![s] = TRUE]
            /\ UNCHANGED holder
    /\ UNCHANGED <<fd, ret, freed_by>>
    /\ UNCHANGED <<potvars, queryvars>>

\* scale_init: tcgetattr and tcsetattr; either may fail
ScaleInitTermios(s) ==
    /\ lpc[s] = "locked"
    /\ \E ok \in BOOLEAN :
          lpc' = [lpc EXCEPT ![s] = IF ok THEN "set" ELSE "error"]
    /\ UNCHANGED <<fd, holder, ret, refused, freed_by>>
    /\ UNCHANGED <<potvars, queryvars>>

\* scale_init: return fdopen (fd, "r+"); when fdopen fails NULL is
\* returned and the descriptor stays open
ScaleInitFdopen(s) ==
    /\ lpc[s] = "set"
    /\ \E ok \in BOOLEAN :
          /\ lpc' = [lpc EXCEPT ![s] = IF ok THEN "held" ELSE "failed"]
          /\ ret' = [ret EXCEPT ![s] = IF ok THEN "fp" ELSE "NULL"]
    /\ UNCHANGED <<fd, holder, refused, freed_by>>
    /\ UNCHANGED <<potvars, queryvars>>

\* scale_init at 'error': close (fd); return NULL
ScaleInitError(s) ==
    /\ lpc[s] = "error"
    /\ lpc' = [lpc EXCEPT ![s] = "failed"]
    /\ fd' = [fd EXCEPT ![s] = FALSE]
    /\ holder' = Released(holder, s)
    /\ freed_by' = IF holder = s THEN "close" ELSE freed_by
    /\ ret' = [ret EXCEPT ![s] = "NULL"]
    /\ UNCHANGED refused
    /\ UNCHANGED <<potvars, queryvars>>

\* scale_fini: fclose (fp) closes the descriptor
ScaleFini(s) ==
    /\ lpc[s] = "held"
    /\ lpc' = [lpc EXCEPT ![s] = "idle"]
    /\ fd' = [fd EXCEPT ![s] = FALSE]
    /\ holder' = Released(holder, s)
    /\ freed_by' = IF holder = s THEN "fini" ELSE freed_by
    /\ ret' = [ret EXCEPT ![s] = "none"]
    /\ UNCHANGED refused
    /\ UNCHANGED <<potvars, queryvars>>

\* the caller of a failed scale_init exits (pot_init: err_exit); the
\* kernel closes what the process left open
ProcessExit(s) ==
    /\ lpc[s] = "failed"
    /\ lpc' = [lpc EXCEPT ![s] = "idle"]
    /\ fd' = [fd EXCEPT ![s] = FALSE]
    /\ holder' = Released(holder, s)
    /\ freed_by' = IF holder = s THEN "exit" ELSE freed_by
    /\ ret' = [ret EXCEPT ![s] = "none"]
    /\ UNCHANGED refused
    /\ UNCHANGED <<potvars, queryvars>>

LockNext ==
    \E s \in Sessions :
        \/ ScaleInitOpen(s)
        \/ ScaleInitOpenFail(s)
        \/ ScaleInitFlock(s)
        \/ ScaleInitTermios(s)
        \/ ScaleInitFdopen(s)
        \/ ScaleInitError(s)
        \/ ScaleFini(s)
        \/ ProcessExit(s)

LockSpec == Init /\ [][LockNext]_vars

----------------------------------------------------------------------------
(* test/query.c: one query, one response read byte by byte, the status and *)
(* the value parsed from the buffer.  A printed weight is an integer in    *)
(* millionths of a pound: printf ("%f") prints six decimals.               *)

\* sizeof (buf) in main
BufSize == 64

Repeat(x, n) == [i \in 1..n |-> x]

\* what the scale may send in answer to the query
Streams ==
    { ValueFrame(<<"0", "5", ".", "1", "2", "0">>, <<"0", "0">>),
      ValueFrame(<<"0", "0", ".", "0", "0", "0">>, <<"2", "0">>),
      ValueFrame(<<"0", "5", ".", "1", "2", "0">>, <<"1", "0">>),
      ValueFrame(<<"0", "5", ".", "1", "2", "0">>, <<"1", "1">>),
      ValueFrame(<<"0", "5", ".", "1", "2", "0">>, <<"0", "1">>),
      ValueFrame(<<"0", "5", ".", "1", "2", "0">>, <<"0", "2">>),
      ValueFrame(<<"0", "5", ".", "1", "2", "0">>, <<"3", "0">>),
      ValueFrame(<<"0", "5", ".", "1", "K", "G">>, <<"1", "0">>),
      ValueFrame(<<" ", " ", "5", ".", "1", "2">>, <<"0", "0">>),
      ValueFrame(<<"-", "1", ".", "0", "0", "0">>, <<"0", "0">>),
      ValueFrame(<<"5", ".", "1", "2", " ", "0">>, <<"0", "0">>),
      ValueFrame(<<"5", ".", "1", "2", "0", "0">>, <<"0", "0">>)
          \o StatusFrame(<<"0", "0">>),
      <<"LF", "0", "5", ".", "1", "2", "0", "K", "G", "CR">>
          \o StatusFrame(<<"0", "0">>),
      <<"LF", "0", "5", ".", "1", "2", "0", "L", "B", "CR", "CR", "S",
        "0", "0", "CR", "ETX">>,
      ValueFrame(<<"2", ".", "5">>, <<"0", "0">>),
      CapFrame("^", <<"0", "2">>),
      StatusFrame(<<"0", "0">>),
      StatusFrame(<<"2", "0">>),
      StatusFrame(<<"1", "0">>),
      StatusFrame(<<"0", "0">>) \o StatusFrame(<<"1", "0">>),
      <<"LF", "S", "0">>,
      <<>>,
      Repeat("X", BufSize + 2),
      Repeat("X", BufSize - 1) \o <<"ETX", "X">>,
      Repeat("X", BufSize) \o <<"ETX">> }

\* read_response's loop condition
LoopCondLate(len, size) == len <= size

LoopCond(len, size) == len < size

\* strtod on s, for the bytes of Streams (no exponent, no hexadecimal, no
\* "inf" or "nan"): white space is skipped, then an optional sign, digits,
\* an optional point and digits, with one digit at least; n is the number
\* of bytes up to endptr (0 when there is no conversion), val the number
\* in millionths
StrtodFrom(s, t) ==
    LET neg    == t # <<>> /\ Head(t) = "-"
        t2     == IF t # <<>> /\ Head(t) \in {"-", "+"} THEN Tail(t) ELSE t
        ip     == DigitRun(t2)
        t3     == Drop(t2, Len(ip))
        hasDot == t3 # <<>> /\ Head(t3) = "."
        fp     == IF hasDot THEN DigitRun(Tail(t3)) ELSE <<>>
        rest   == IF hasDot THEN Drop(t3, 1 + Len(fp)) ELSE t3
        mag    == DecVal(ip) * Pow10(6)
                  + (IF Len(fp) <= 6 THEN DecVal(fp) * Pow10(6 - Len(fp))
                     ELSE DecVal(SubSeq(fp, 1, 6)))
    IN  IF Len(ip) + Len(fp) = 0
        THEN [n |-> 0, val |-> 0]
        ELSE [n |-> Len(s) - Len(rest), val |-> IF neg THEN -mag ELSE mag]

strtod(s) == StrtodFrom(s, SkipWs(s))

\* parse_status that takes "weight not stable" for a good status
StatusRcLenient(c) ==
    IF c \in {<<"0", "0">>, <<"2", "0">>, <<"1", "0">>} THEN <<0>>
    ELSE IF c \in {<<"0", "1">>, <<"0", "2">>, <<"1", "1">>} THEN <<-1>>
    ELSE <<>>

\* parse_status: *rc for the two status characters, <<>> for a code it
\* does not know
StatusRc(c) ==
    IF c \in {<<"0", "0">>, <<"2", "0">>} THEN <<0>>
    ELSE IF c \in {<<"1", "0">>, <<"0", "1">>, <<"0", "2">>, <<"1", "1">>}
    THEN <<-1>>
    ELSE <<>>

\* parse_status (b): ret is its return value, rc is *rc
parse_status(b) ==
    IF b[1] # "LF" \/ b[2] # "S" \/ b[5] # "CR" \/ b[6] # "ETX"
    THEN [ret |-> -1, rc |-> 0]
    ELSE IF StatusRc(<<b[3], b[4]>>) = <<>>
    THEN [ret |-> -1, rc |-> 0]
    ELSE [ret |-> 0, rc |-> StatusRc(<<b[3], b[4]>>)[1]]

\* parse_value (b): b is the buffer from buf[0]; strtod starts at buf[1]
\* and endptr must be buf + 7
parse_value(b) ==
    IF b[1] # "LF" \/ b[8] # "L" \/ b[9] # "B" \/ b[10] # "CR"
    THEN [ret |-> -1, weight |-> 0]
    ELSE IF 1 + strtod(Tail(b)).n # 7
    THEN [ret |-> -1, weight |-> 0]
    ELSE [ret |-> 0, weight |-> strtod(Tail(b)).val]

Exit(code, text, msg) == [exit |-> code, printed |-> text, msg |-> msg]

\* main from 'Parse the value'
MainValue(b) ==
    IF parse_value(b).ret < 0
    THEN Exit(1, <<>>, "Error parsing value response")
    ELSE Exit(0, <<parse_value(b).weight>>, "")

\* main from 'Parse status', status pointing at b[st + 1]
MainStatus(len, b, st) ==
    IF parse_status(Drop(b, st)).ret < 0
    THEN Exit(1, <<>>, "Error parsing status response")
    ELSE IF parse_status(Drop(b, st)).rc < 0
    THEN Exit(1, <<>>, "Scale error")
    ELSE IF len # 16
    THEN Exit(1, <<>>, "Value not returned")
    ELSE MainValue(b)

\* main after read_response has returned len
Main(len, b) ==
    IF len < 0 THEN Exit(1, <<>>, "read response")
    ELSE IF len = 6 THEN MainStatus(len, b, 0)
    ELSE IF len = 16 THEN MainStatus(len, b, 10)
    ELSE Exit(1, <<>>, "Unexpected response")

\* main: scale_open and the write of the query succeed; the scale answers
QueryOpen ==
    /\ qpc = "start"
    /\ \E s \in Streams :
          /\ orig' = s
          /\ stream' = s
    /\ qpc' = "read"
    /\ UNCHANGED <<buf, qlen, qerrno, printed, qmsg, qexit>>
    /\ UNCHANGED <<potvars, lockvars>>

\* main: scale_open or the write of the query fails
QueryOpenFail ==
    /\ qpc = "start"
    /\ qpc' = "exit"
    /\ qexit' = 1
    /\ qmsg' = "open or write"
    /\ UNCHANGED <<stream, orig, buf, qlen, qerrno, printed>>
    /\ UNCHANGED <<potvars, lockvars>>

\* read_response: one turn of the loop with read returning 1; the return
\* when the byte is ETX or the loop condition fails
ReadByte ==
    /\ qpc = "read"
    /\ LoopCond(Len(buf), BufSize)
    /\ stream # <<>>
    /\ buf' = Append(buf, Head(stream))
    /\ stream' = Tail(stream)
    /\ IF Head(stream) = "ETX" \/ ~LoopCond(Len(buf) + 1, BufSize)
       THEN qpc' = "main" /\ qlen' = Len(buf) + 1
       ELSE UNCHANGED <<qpc, qlen>>
    /\ UNCHANGED <<orig, qerrno, printed, qmsg, qexit>>
    /\ UNCHANGED <<potvars, lockvars>>

\* read_response: read returns a negative value
ReadError ==
    /\ qpc = "read"
    /\ LoopCond(Len(buf), BufSize)
    /\ qpc' = "main"
    /\ qlen' = -1
    /\ qerrno' = "EIO"
    /\ UNCHANGED <<stream, orig, buf, printed, qmsg, qexit>>
    /\ UNCHANGED <<potvars, lockvars>>

\* read_response: read returns 0, the end of the input
ReadEof ==
    /\ qpc = "read"
    /\ LoopCond(Len(buf), BufSize)
    /\ stream = <<>>
    /\ qpc' = "main"
    /\ qlen' = -1
    /\ qerrno' = "ENODATA"
    /\ UNCHANGED <<stream, orig, buf, printed, qmsg, qexit>>
    /\ UNCHANGED <<potvars, lockvars>>

\* main after read_response: the checks, printf, close, return
QueryMain ==
    /\ qpc = "main"
    /\ \E closed \in BOOLEAN :
          /\ printed' = Main(qlen, buf).printed
          /\ qmsg' = IF Main(qlen, buf).exit = 0 /\ ~closed THEN "close"
                     ELSE Main(qlen, buf).msg
          /\ qexit' = IF closed THEN Main(qlen, buf).exit ELSE 1
    /\ qpc' = "exit"
    /\ UNCHANGED <<stream, orig, buf, qlen, qerrno>>
    /\ UNCHANGED <<potvars, lockvars>>

QueryNext ==
    \/ QueryOpen
    \/ QueryOpenFail
    \/ ReadByte
    \/ ReadError
    \/ ReadEof
    \/ QueryMain

QuerySpec == Init /\ [][QueryNext]_vars

----------------------------------------------------------------------------
(* Frames of the protocol, as the claims name them *)

TwoDigits(f, i) == f[i] \in Digits /\ f[i + 1] \in Digits

Code(f, i) == 10 * DigitVal(f[i]) + DigitVal(f[i + 1])

\* newline, 'S', two status digits, CR, ETX
IsStatusOnly(f) ==
    /\ Len(f) = 6
    /\ f[1] = "LF" /\ f[2] = "S" /\ TwoDigits(f, 3)
    /\ f[5] = "CR" /\ f[6] = "ETX"

InMotion(f) == IsStatusOnly(f) /\ Code(f, 3) \in {10, 11}

\* newline, six x, CR LF, 'S', two status digits, CR, ETX
IsCapacity(f, x) ==
    /\ Len(f) = 14
    /\ f[1] = "LF" /\ \A i \in 2..7 : f[i] = x
    /\ f[8] = "CR" /\ f[9] = "LF" /\ f[10] = "S" /\ TwoDigits(f, 11)
    /\ f[13] = "CR" /\ f[14] = "ETX"

\* a numeric field of the expected width 6: an optional sign, digits and
\* one decimal point
IsNumField(f) ==
    /\ \A i \in 2..7 : f[i] \in Digits \cup {".", "-"}
    /\ \A i \in 3..7 : f[i] # "-"
    /\ Cardinality({i \in 2..7 : f[i] = "."}) = 1

\* newline, numeric field, 'LB', CR LF, 'S', two status digits, CR, ETX
IsValueFrame(f) ==
    /\ Len(f) = 16
    /\ f[1] = "LF" /\ IsNumField(f)
    /\ f[8] = "L" /\ f[9] = "B" /\ f[10] = "CR" /\ f[11] = "LF"
    /\ f[12] = "S" /\ TwoDigits(f, 13)
    /\ f[15] = "CR" /\ f[16] = "ETX"

\* the response begins like a value frame: newline, then a number
StartsWithNumber(f) ==
    /\ Len(f) >= 3 /\ f[1] = "LF"
    /\ f[2] \in Digits \/ (f[2] = "-" /\ f[3] \in Digits)

\* scale_read has returned -1 with errno e
Failed(e) == pc' = "ret" /\ rc' = -1 /\ errno' = e

----------------------------------------------------------------------------
(* Claims *)

\* C1: within one scale_read call the query is re-issued exactly for the
\* status-only responses whose status is in motion (10 or 11); a status-only
\* response with any other code ends the call with a protocol error.
C1_RetryOnlyInMotion ==
    [][ScaleReadQuery =>
         /\ (pc' = "read") <=> InMotion(rx')
         /\ (IsStatusOnly(rx') /\ ~InMotion(rx')) => Failed("EPROTO")]_vars

\* C2: every scale_read call terminates: a call does not stay for ever in
\* its retry loop when the scale answers every query with an in-motion
\* status; after finitely many retries it returns.
C2_ReadTerminates == []<>~(pc = "read" /\ nq > 0 /\ InMotion(rx))

\* C3: an over-capacity or under-capacity frame fails with ERANGE, a
\* zeroing-error frame with EDOM, and a response of no known pattern with
\* EPROTO, each ending the call.
C3_TerminalErrors ==
    [][ScaleReadQuery =>
         /\ IsCapacity(rx', "^") \/ IsCapacity(rx', "_") => Failed("ERANGE")
         /\ IsCapacity(rx', "-") => Failed("EDOM")
         /\ ~(\/ StartsWithNumber(rx') \/ IsStatusOnly(rx')
              \/ \E x \in {"^", "_", "-"} : IsCapacity(rx', x))
               => Failed("EPROTO")]_vars

\* C4: scale_read returns 0 only when the frame's status code is 00 or 20.
C4_WeightOnlyOkStatus == (pc = "ret" /\ rc = 0) => status \in {0, 20}

\* C5: scale_read returns 0 only for a complete, well-formed value frame.
C5_WeightOnlyWellFormed == (pc = "ret" /\ rc = 0) => IsValueFrame(rx)

\* C6: a weight delivered to the caller is never negative.
C6_WeightNonNegative == (pc = "ret" /\ rc = 0) => lbs >= 0

\* C7: pot_update logs "on" exactly when the previous percentage is <= 0
\* and the new percentage is > 0.
C7_OnExactly ==
    [][PotCheckerUpdate => ((ev' = "on") <=> (pct <= 0 /\ pct' > 0))]_vars

\* C8: pot_update logs "off" exactly when the previous percentage is >= 0
\* and the new percentage is < 0.
C8_OffExactly ==
    [][PotCheckerUpdate => ((ev' = "off") <=> (pct >= 0 /\ pct' < 0))]_vars

\* C8 witness: an update has logged "off" on a negative percentage
C8_Witness == ev = "off" /\ pct < 0 /\ pc = "read"

\* the percentage rounded to the nearest multiple of the tolerance pct_err
Bucket(p) == IF pct_err > 0 THEN (2 * p + pct_err) \div (2 * pct_err) ELSE p

\* C9: a reading that turns the pot neither on nor off logs an update if
\* and only if its bucket differs from the bucket of the last logged event.
C9_UpdatedOnBucketChange ==
    [][PotCheckerUpdate /\ full_lbs > empty_lbs /\ ev' \notin {"on", "off"} =>
         ((ev' = "updated") <=> (Bucket(pct') # Bucket(emitted_pct)))]_vars

\* C10: after a failed scale_read the polling loop reads again.
C10_ErrorKeepsPolling == [][pc = "ret" /\ rc < 0 => pc' = "read"]_vars

\* C11: the polling loop is entered only with full_lbs > empty_lbs, so the
\* percentage is never computed over a zero or negative span.
C11_InvalidConfigRejected ==
    pc \in {"read", "ret"} => full_lbs > empty_lbs

\* C13: a fresh pot holds the negative sentinel, so with no message logged
\* yet an update logs nothing on a negative percentage, and the first
\* message ever logged is "on" (stated for full_lbs > empty_lbs).
C13_FirstEventOn ==
    [][PotCheckerUpdate /\ full_lbs > empty_lbs /\ last_ev = "none" =>
         ev' \in {"none", "on"}]_vars

\* 100 * (lbs - empty_lbs), the dividend of the percentage
Num == 100 * (lbs - empty_lbs)

Span == full_lbs - empty_lbs

Abs(x) == IF x >= 0 THEN x ELSE -x

\* C14 as claimed: with full_lbs > empty_lbs the percentage passed to
\* pot_update is the quotient rounded to the nearest integer.
C14_PctRounded ==
    [][PotCheckerUpdate /\ Span > 0 => 2 * Abs(Num - pct' * Span) <= Span]_vars

\* C14 as amended: with full_lbs > empty_lbs the percentage passed to
\* pot_update is the quotient truncated toward zero, and it is not clamped.
C14_PctTruncated ==
    [][PotCheckerUpdate /\ Span > 0 =>
         /\ Num >= 0 => pct' * Span <= Num /\ Num < (pct' + 1) * Span
         /\ Num < 0 => (pct' - 1) * Span < Num /\ Num <= pct' * Span]_vars

\* C14 witness: a quotient above 100 with a fraction has been stored
C14_Witness ==
    pc = "read" /\ Span > 0 /\ pct > 100 /\ Num # pct * Span /\ ev = "none"

\* C15: pot_update stores the percentage it is given whether or not it logs
\* a message (the "on" message prints the stored value), and a cycle whose
\* scale_read failed changes neither the stored percentage nor the log.
C15_StoredAlways ==
    [][/\ PotCheckerUpdate /\ Span # 0 =>
              pct' = Pct(lbs, empty_lbs, full_lbs)
       /\ PotCheckerUpdate /\ ev' = "on" => evpct' = pct'
       /\ PotCheckerFail =>
              pct' = pct /\ ev' = ev /\ last_ev' = last_ev]_vars

\* C15 witness: an update has stored a new percentage and logged nothing
C15_Witness ==
    pc = "read" /\ ev = "none" /\ last_ev # "none" /\ pct # emitted_pct

\* C18: the "on" and "off" messages alternate: a logged message differs from
\* the one logged before it (stated for full_lbs > empty_lbs).
C18_OnOffAlternate ==
    [][PotCheckerUpdate /\ Span > 0 /\ ev' # "none" => ev' # last_ev]_vars

\* C19: when scale_read returns, the stream is at a frame boundary: no byte
\* of a response is left unread.
C19_FrameBoundary == pc = "ret" => inbuf = <<>>

\* C12: at most one session holds the scale device: the session that holds
\* the lock is the only one past flock and the only one scale_init has
\* returned a stream to; while a session holds the device, flock in every
\* other scale_init fails at once (the step is never disabled) and that
\* scale_init returns NULL with its descriptor closed; scale_fini closes
\* the descriptor and leaves the lock free, so that a new scale_init can
\* take it.
DeviceHeld(s) == \E t \in Sessions \ {s} : lpc[t] = "held"

C12_Exclusive ==
    /\ \A s, t \in Sessions : lpc[s] = "held" /\ lpc[t] = "held" => s = t
    /\ \A s \in Sessions :
          /\ lpc[s] \in {"locked", "set", "held"} => holder = s /\ fd[s]
          /\ lpc[s] = "held" <=> ret[s] = "fp"
          /\ lpc[s] = "opened" => ENABLED ScaleInitFlock(s)
          /\ DeviceHeld(s) /\ ret[s] = "NULL" => ~fd[s] /\ holder # s

C12_SingleHolder ==
    [][/\ C12_Exclusive'
       /\ \A s \in Sessions :
             /\ ScaleInitFlock(s) /\ DeviceHeld(s) => lpc'[s] = "error"
             /\ ScaleInitError(s) => ret'[s] = "NULL" /\ ~fd'[s]
             /\ ScaleFini(s) => holder' = 0 /\ ~fd'[s]
                                 /\ \A t \in Sessions : lpc'[t] # "held"]_vars

\* a session that was refused holds the device after another's scale_fini,
\* while a third has been refused and has no descriptor left
C12_Witness ==
    \E s, t \in Sessions :
        /\ s # t
        /\ lpc[t] = "held" /\ refused[t] /\ freed_by = "fini"
        /\ lpc[s] = "failed" /\ ret[s] = "NULL" /\ refused[s] /\ ~fd[s]

NoEtx(b) == \A i \in 1..Len(b) : b[i] # "ETX"

\* C16: read_response stores at most 'size' bytes and reads no byte beyond
\* the first ETX: the bytes stored are exactly the bytes taken from the
\* input; when it returns len >= 0 then 1 <= len <= size, len bytes are
\* stored, and either the last is the only ETX among them or len = size
\* and none is ETX; otherwise it returns -1 before an ETX or 'size' bytes
\* were read, with ENODATA when the input has ended.
C16_ReadResponse ==
    /\ Len(buf) <= BufSize
    /\ qpc # "start" => buf \o stream = orig
    /\ qpc = "read" => NoEtx(buf) /\ Len(buf) < BufSize
    /\ qpc = "main" /\ qlen >= 0 =>
          /\ 1 <= qlen /\ qlen <= BufSize /\ Len(buf) = qlen
          /\ NoEtx(SubSeq(buf, 1, qlen - 1))
          /\ buf[qlen] = "ETX" \/ qlen = BufSize
    /\ qpc = "main" /\ qlen < 0 =>
          /\ qlen = -1 /\ NoEtx(buf) /\ Len(buf) < BufSize
          /\ qerrno \in {"EIO", "ENODATA"}
          /\ qerrno = "ENODATA" => stream = <<>>

\* read_response has returned 'size' with no ETX stored and input left over
C16_Witness ==
    qpc = "main" /\ qlen = BufSize /\ NoEtx(buf) /\ stream # <<>>

\* the conditions C17 names, on the response read
GoodLength == qlen = 16

GoodStatus ==
    \E c \in {<<"0", "0">>, <<"2", "0">>} : SubSeq(buf, 11, 16) = StatusFrame(c)

GoodValue ==
    /\ buf[1] = "LF" /\ SubSeq(buf, 8, 10) = <<"L", "B", "CR">>
    /\ strtod(SubSeq(buf, 2, 7)).n = 6

ScaleErrorStatus(b) ==
    \E c \in {<<"1", "0">>, <<"1", "1">>, <<"0", "1">>, <<"0", "2">>} :
        b = StatusFrame(c)

=============================================================================
